---- MODULE Spec2Model ----
(***************************************************************************)
(* Call accounting and quota enforcement of the eoddata client:            *)
(* AccountingTracker (src/src/eoddata/accounting.py) and the gate in       *)
(* EODDataClient._request (src/src/eoddata/client.py).                     *)
(*                                                                         *)
(* The tracker's data is a list of per-key dicts.  A dict is modelled as   *)
(* a record: api_key_masked, global (the key's aggregate counters) and     *)
(* ops, the operation entries in dict insertion order.  The metadata       *)
(* timestamps of an operation entry (started_at, last_updated) are written *)
(* but never read by the tracker and are left out of the state.  The wall  *)
(* clock is an input of the calls that read it (time.time() is not         *)
(* monotonic).                                                             *)
(***************************************************************************)
EXTENDS Integers, Sequences, FiniteSets, TLC

VARIABLES
    data,                \* AccountingTracker.data
    _is_running,         \* AccountingTracker._is_running
    _last_cleanup_time,  \* AccountingTracker._last_cleanup_time
    last,                \* what the most recent call gave its caller
    now,                 \* the wall clock, where its passing is followed (SpecWindows)
    calls,               \* the calls counted since the last reset, each with the clock
                         \* reading of its increment_call, where that is followed
    file,                \* the file save_to_file writes and load_from_file reads
    saved,               \* the data list as it was when save_to_file last wrote the file
    input,               \* the argument of the most recent call that returns a string
    text,                \* the string that call returned
    threads              \* where each thread is in its increment_call (SpecThreads)

vars == <<data, _is_running, _last_cleanup_time, last, now, calls, file,
          saved, input, text, threads>>

-----------------------------------------------------------------------------
(* Bounds of the model *)

MaxCalls == 2      \* increment_call is explored while the counted calls of all keys stay < MaxCalls
MaxLimit == 2      \* largest limit value given to enable_quotas
MaxKeyLen == 10    \* longest key given to _mask_api_key alone

(* Program constants *)

CleanupInterval == 3600
MaskKeep == 4
MaskThreshold == 8
CheckQuotaArity == 1
RequestCheckQuotaArgs == 2

(* the lengths, in seconds, of the windows the counters calls_60s and calls_24h are named for *)
Window60s == 60
Window24h == 86400

None == "None"

(* _last_cleanup_time before the first cleanup (Python None) *)
NoTime == -1

(* Two long keys with the same first and last four characters, and a short one *)
Keys == {"ABCD1111WXYZ", "ABCD2222WXYZ", "short"}

(* the keys calls are counted for; the short key is only configured and checked *)
CountedKeys == {"ABCD1111WXYZ", "ABCD2222WXYZ"}

(* values of the wall clock time.time() when increment_call reads it *)
Times == {0, CleanupInterval + 1}

Endpoints == {"/Quote/List/NASDAQ", "/Quote/Get/NASDAQ/AAPL"}

-----------------------------------------------------------------------------
(* Values *)

Counters(n) == [total_calls |-> n, calls_60s |-> n, calls_24h |-> n]

Quota(t, s, d) == [total |-> t, calls_60s |-> s, calls_24h |-> d]

NewOperation(operation_id) ==
    [id |-> operation_id,
     totals |-> Counters(0),
     status |-> [counting_enabled |-> TRUE, quotas_enabled |-> FALSE],
     quotas |-> Quota(0, 0, 0)]

(* variant: a key of exactly MaskThreshold characters is masked too *)
MaskFromThreshold(api_key) ==
    IF Len(api_key) < MaskThreshold
    THEN api_key
    ELSE SubSeq(api_key, 1, MaskKeep) \o "****"
         \o SubSeq(api_key, Len(api_key) - MaskKeep + 1, Len(api_key))

_mask_api_key(api_key) ==
    IF Len(api_key) <= MaskThreshold
    THEN api_key
    ELSE SubSeq(api_key, 1, MaskKeep) \o "****"
         \o SubSeq(api_key, Len(api_key) - MaskKeep + 1, Len(api_key))

(* variant: the record is labelled with the key as given *)
NewApiKeyDataRaw(api_key) ==
    [api_key_masked |-> api_key,
     global |-> Counters(0),
     ops |-> << >>]

NewApiKeyData(api_key) ==
    [api_key_masked |-> _mask_api_key(api_key),
     global |-> Counters(0),
     ops |-> << >>]

(* Index of the first record whose masked key equals the mask of api_key, 0 if none *)
FindApiKeyData(d, api_key) ==
    LET hits == {i \in 1..Len(d) : d[i].api_key_masked = _mask_api_key(api_key)}
    IN  IF hits = {} THEN 0 ELSE CHOOSE i \in hits : \A j \in hits : i <= j

(* _get_api_key_data: the list after the call, and the index of the record it returns *)
_get_api_key_data(d, api_key) ==
    IF FindApiKeyData(d, api_key) = 0 THEN Append(d, NewApiKeyData(api_key)) ELSE d

KeyIndex(d, api_key) ==
    IF FindApiKeyData(d, api_key) = 0 THEN Len(d) + 1 ELSE FindApiKeyData(d, api_key)

OpIndex(ops, operation_id) ==
    LET hits == {i \in 1..Len(ops) : ops[i].id = operation_id}
    IN  IF hits = {} THEN 0 ELSE CHOOSE i \in hits : TRUE

(* variant: a call made when one is already counted is merged with it *)
BumpMerged(c) ==
    [total_calls |-> IF c.total_calls = 0 THEN 1 ELSE c.total_calls,
     calls_60s |-> c.calls_60s + 1,
     calls_24h |-> c.calls_24h + 1]

Bump(c) ==
    [total_calls |-> c.total_calls + 1,
     calls_60s |-> c.calls_60s + 1,
     calls_24h |-> c.calls_24h + 1]

-----------------------------------------------------------------------------
(* AccountingTracker, as functions of the data list *)

ReservedNames == {"global", "api_key_masked"}

(* increment_call reads api_key_data[operation_id]['totals']: under the name  *)
(* 'global' that is the aggregate dict, under 'api_key_masked' a string       *)
IncrementError(operation_id) ==
    CASE operation_id = "global" -> "KeyError"
      [] operation_id = "api_key_masked" -> "TypeError"
      [] OTHER -> "ok"

(* variant: the call that creates the entry of an operation is counted for the *)
(* key only, the entry starts at zero                                          *)
increment_callNewEntryAtZero(d, api_key, operation_id) ==
    LET d1 == _get_api_key_data(d, api_key)
        i == KeyIndex(d, api_key)
        rec == d1[i]
        j == OpIndex(rec.ops, operation_id)
        ops2 == IF j = 0
                THEN Append(rec.ops, NewOperation(operation_id))
                ELSE [rec.ops EXCEPT ![j].totals = Bump(@)]
    IN  IF operation_id \in ReservedNames
        THEN d1
        ELSE [d1 EXCEPT ![i] = [rec EXCEPT !.ops = ops2, !.global = Bump(@)]]

increment_call(d, api_key, operation_id) ==
    LET d1 == _get_api_key_data(d, api_key)
        i == KeyIndex(d, api_key)
        rec == d1[i]
        ops1 == IF OpIndex(rec.ops, operation_id) = 0
                THEN Append(rec.ops, NewOperation(operation_id))
                ELSE rec.ops
        j == OpIndex(ops1, operation_id)
        ops2 == [ops1 EXCEPT ![j].totals = Bump(@)]
    IN  IF operation_id \in ReservedNames
        THEN d1
        ELSE [d1 EXCEPT ![i] = [rec EXCEPT !.ops = ops2, !.global = Bump(@)]]

_cleanup_old_data(lc, current_time) ==
    IF lc = NoTime \/ (lc # NoTime /\ current_time - lc > CleanupInterval)
    THEN current_time
    ELSE lc

enable_quotas(d, api_key, q) ==
    LET d1 == _get_api_key_data(d, api_key)
        i == KeyIndex(d, api_key)
    IN  [d1 EXCEPT ![i].ops =
            [j \in 1..Len(@) |->
                [@[j] EXCEPT !.quotas = q, !.status.quotas_enabled = TRUE]]]

Allowed == [kind |-> "ok", quota_type |-> None, current |-> 0, limit |-> 0]

OutOfQuotaError(quota_type, current, limit) ==
    [kind |-> "OutOfQuotaError", quota_type |-> quota_type,
     current |-> current, limit |-> limit]

Raised(kind) == [kind |-> kind, quota_type |-> None, current |-> 0, limit |-> 0]

QuotasEnabled(rec) ==
    \E j \in 1..Len(rec.ops) : rec.ops[j].status.quotas_enabled

(* the quotas dict check_quota reads: that of the first operation entry, {} if none; *)
(* quotas.get(name, 0) then gives 0                                                 *)
ReadQuotas(rec) ==
    IF Len(rec.ops) = 0 THEN Quota(0, 0, 0) ELSE rec.ops[1].quotas

(* variants of the test: strict comparison; no test that the limit is set *)
LimitExceeded(limit, count) == limit > 0 /\ count > limit

LimitReachedOrUnset(limit, count) == count >= limit

(* one of the three tests of check_quota: the limit is set and the count has reached it *)
LimitReached(limit, count) == limit > 0 /\ count >= limit

(* variant: the 60-second window is tested before the total *)
CheckQuotaWindowFirst(rec) ==
    LET quotas == ReadQuotas(rec)
        global_stats == rec.global
    IN  IF ~QuotasEnabled(rec) THEN Allowed
        ELSE IF LimitReached(quotas.calls_60s, global_stats.calls_60s)
        THEN OutOfQuotaError("calls_60s", global_stats.calls_60s, quotas.calls_60s)
        ELSE IF LimitReached(quotas.total, global_stats.total_calls)
        THEN OutOfQuotaError("total", global_stats.total_calls, quotas.total)
        ELSE IF LimitReached(quotas.calls_24h, global_stats.calls_24h)
        THEN OutOfQuotaError("calls_24h", global_stats.calls_24h, quotas.calls_24h)
        ELSE Allowed

(* variant: the counters of the first operation entry are tested, not the aggregate *)
CheckQuotaPerOperation(rec) ==
    LET quotas == ReadQuotas(rec)
        global_stats == IF Len(rec.ops) = 0 THEN rec.global ELSE rec.ops[1].totals
    IN  IF ~QuotasEnabled(rec) THEN Allowed
        ELSE IF LimitReached(quotas.total, global_stats.total_calls)
        THEN OutOfQuotaError("total", global_stats.total_calls, quotas.total)
        ELSE IF LimitReached(quotas.calls_60s, global_stats.calls_60s)
        THEN OutOfQuotaError("calls_60s", global_stats.calls_60s, quotas.calls_60s)
        ELSE IF LimitReached(quotas.calls_24h, global_stats.calls_24h)
        THEN OutOfQuotaError("calls_24h", global_stats.calls_24h, quotas.calls_24h)
        ELSE Allowed

(* the body of check_quota on the record of the key, once quotas and counters are read *)
CheckQuotaRecord(rec) ==
    LET quotas == ReadQuotas(rec)
        global_stats == rec.global
    IN  IF ~QuotasEnabled(rec) THEN Allowed
        ELSE IF LimitReached(quotas.total, global_stats.total_calls)
        THEN OutOfQuotaError("total", global_stats.total_calls, quotas.total)
        ELSE IF LimitReached(quotas.calls_60s, global_stats.calls_60s)
        THEN OutOfQuotaError("calls_60s", global_stats.calls_60s, quotas.calls_60s)
        ELSE IF LimitReached(quotas.calls_24h, global_stats.calls_24h)
        THEN OutOfQuotaError("calls_24h", global_stats.calls_24h, quotas.calls_24h)
        ELSE Allowed

(* check_quota while running: what it gives the caller *)
check_quota(d, api_key) ==
    CheckQuotaRecord(_get_api_key_data(d, api_key)[KeyIndex(d, api_key)])

(* variant: only total_calls is zeroed, the window counters are kept *)
resetTotalCallsOnly(d) ==
    [i \in 1..Len(d) |->
        [d[i] EXCEPT
            !.ops = [j \in 1..Len(@) |-> [@[j] EXCEPT !.totals.total_calls = 0]],
            !.global.total_calls = 0]]

(* variant: only the operation counters are zeroed, the aggregate of the key is kept *)
resetOperationsOnly(d) ==
    [i \in 1..Len(d) |->
        [d[i] EXCEPT
            !.ops = [j \in 1..Len(@) |-> [@[j] EXCEPT !.totals = Counters(0)]]]]

reset(d) ==
    [i \in 1..Len(d) |->
        [d[i] EXCEPT
            !.ops = [j \in 1..Len(@) |-> [@[j] EXCEPT !.totals = Counters(0)]],
            !.global = Counters(0)]]

-----------------------------------------------------------------------------
(* save_to_file and load_from_file: the JSON document of the data list.  A dict  *)
(* becomes a JSON object, its members in the order of the dict; json.load gives  *)
(* back dicts with the members in the order of the document.                     *)

Member(name, value) == [name |-> name, value |-> value]

(* the JSON object of the dict of one key *)
EntryJson(rec) ==
    (IF rec.api_key_masked = None THEN << >>
     ELSE <<Member("api_key_masked", rec.api_key_masked)>>)
    \o <<Member("global", rec.global)>>
    \o [j \in 1..Len(rec.ops) |->
            Member(rec.ops[j].id,
                   [totals |-> rec.ops[j].totals,
                    status |-> rec.ops[j].status,
                    quotas |-> rec.ops[j].quotas])]

json_dump(d) == [i \in 1..Len(d) |-> EntryJson(d[i])]

HasMember(members, name) == \E k \in 1..Len(members) : members[k].name = name

MemberNamed(members, name) ==
    members[CHOOSE k \in 1..Len(members) : members[k].name = name]

(* variant: the status flags are not restored, an imported operation starts with *)
(* the flags of a new one                                                       *)
EntryDictNewStatus(members) ==
    LET operations == SelectSeq(members, LAMBDA m : m.name \notin ReservedNames)
    IN  [api_key_masked |-> IF HasMember(members, "api_key_masked")
                            THEN MemberNamed(members, "api_key_masked").value
                            ELSE None,
         global |-> MemberNamed(members, "global").value,
         ops |-> [j \in 1..Len(operations) |->
                     [id |-> operations[j].name,
                      totals |-> operations[j].value.totals,
                      status |-> NewOperation(operations[j].name).status,
                      quotas |-> operations[j].value.quotas]]]

(* the dict json.load builds from the JSON object of one key; the tracker reads the *)
(* masked key with .get('api_key_masked'), None when the object has no such member  *)
EntryDict(members) ==
    LET operations == SelectSeq(members, LAMBDA m : m.name \notin ReservedNames)
    IN  [api_key_masked |-> IF HasMember(members, "api_key_masked")
                            THEN MemberNamed(members, "api_key_masked").value
                            ELSE None,
         global |-> MemberNamed(members, "global").value,
         ops |-> [j \in 1..Len(operations) |->
                     [id |-> operations[j].name,
                      totals |-> operations[j].value.totals,
                      status |-> operations[j].value.status,
                      quotas |-> operations[j].value.quotas]]]

json_load(doc) == [i \in 1..Len(doc) |-> EntryDict(doc[i])]

(* what the file holds: nothing (no such file), text that is not JSON, or a document *)
NoFile == [kind |-> "missing", doc |-> << >>]

NotJson == [kind |-> "invalid", doc |-> << >>]

JsonFile(doc) == [kind |-> "json", doc |-> doc]

(* a JSON document that is not a list of per-key records: its only object has no *)
(* api_key_masked member                                                         *)
MalformedDoc == <<(<<Member("global", Counters(1))>>)>>

Join(lines) ==
    LET RECURSIVE joined(_)
        joined(k) == IF k = 1 THEN lines[1] ELSE joined(k - 1) \o "\n" \o lines[k]
    IN  joined(Len(lines))

RECURSIVE Flatten(_)
Flatten(seqs) == IF seqs = << >> THEN << >> ELSE Head(seqs) \o Flatten(Tail(seqs))

CounterLines(indent, c) ==
    <<indent \o "Total calls: " \o ToString(c.total_calls),
      indent \o "60s calls: " \o ToString(c.calls_60s),
      indent \o "24h calls: " \o ToString(c.calls_24h)>>

(* the lines summary() gives for the dict of one key *)
SummaryOfKey(rec) ==
    <<"\nAPI Key: " \o (IF rec.api_key_masked = None THEN "Unknown" ELSE rec.api_key_masked),
      "  Global Totals:">>
    \o CounterLines("    ", rec.global)
    \o (IF rec.ops = << >> THEN << >> ELSE <<"  Operations:">>)
    \o Flatten([j \in 1..Len(rec.ops) |->
                   <<"    " \o rec.ops[j].id \o ":">>
                   \o CounterLines("      ", rec.ops[j].totals)])
    \o <<"">>

summary(d) ==
    IF d = << >> THEN "No accounting data available"
    ELSE Join(<<"EODData Call Accounting Summary",
                "========================================">>
              \o Flatten([i \in 1..Len(d) |-> SummaryOfKey(d[i])]))

-----------------------------------------------------------------------------
(* EODDataClient._request *)

RECURSIVE LStrip(_)
LStrip(s) ==
    IF Len(s) > 0 /\ SubSeq(s, 1, 1) = "/" THEN LStrip(SubSeq(s, 2, Len(s))) ELSE s

RECURSIVE RStrip(_)
RStrip(s) ==
    IF Len(s) > 0 /\ SubSeq(s, Len(s), Len(s)) = "/"
    THEN RStrip(SubSeq(s, 1, Len(s) - 1))
    ELSE s

(* endpoint.strip('/') *)
Strip(s) == RStrip(LStrip(s))

(* s.split('/') *)
RECURSIVE Split(_)
Split(s) ==
    LET cuts == {i \in 1..Len(s) : SubSeq(s, i, i) = "/"}
        c == CHOOSE i \in cuts : \A j \in cuts : i <= j
    IN  IF cuts = {} THEN <<s>>
        ELSE <<SubSeq(s, 1, c - 1)>> \o Split(SubSeq(s, c + 1, Len(s)))

(* variant: the id is taken from the last path segment instead of the second *)
OperationIdFromLast(endpoint) ==
    LET parts == Split(Strip(endpoint))
    IN  IF endpoint = "" THEN "unknown"
        ELSE IF Len(parts) >= 2
        THEN parts[Len(parts)] \o "_" \o (IF parts[1] # "api" THEN parts[1] ELSE "unknown")
        ELSE parts[1]

OperationId(endpoint) ==
    LET parts == Split(Strip(endpoint))
    IN  IF endpoint = "" THEN "unknown"
        ELSE IF Len(parts) >= 2
        THEN parts[2] \o "_" \o (IF parts[1] # "api" THEN parts[1] ELSE "unknown")
        ELSE parts[1]

(* every error the accounting calls can raise is an instance of Exception *)
IsException(kind) == kind \in {"OutOfQuotaError", "TypeError", "KeyError"}

(* the except clause of the accounting block re-raises only what is not an Exception *)
Reraised(kind) == kind # "ok" /\ ~IsException(kind)

Responses ==
    {"200_json", "200_not_json", "401", "404", "429", "500",
     "Timeout", "ConnectionError", "RequestException"}

(* variant: a body that is not JSON is handed to the caller as it is *)
HttpResultLenient(response) ==
    CASE response = "401" -> Raised("EODDataAuthError")
      [] response \in {"404", "429", "500"} -> Raised("EODDataAPIError")
      [] response \in {"200_json", "200_not_json"} -> Raised("data")
      [] OTHER -> Raised("EODDataError")

HttpResult(response) ==
    CASE response = "401" -> Raised("EODDataAuthError")
      [] response \in {"404", "429", "500"} -> Raised("EODDataAPIError")
      [] response = "200_json" -> Raised("data")
      [] OTHER -> Raised("EODDataError")

(* a client attached to the tracker, and one constructed without accounting *)
Clients ==
    {[api_key |-> "ABCD1111WXYZ", accounting |-> TRUE],
     [api_key |-> "short", accounting |-> FALSE]}

-----------------------------------------------------------------------------
(* Inputs explored *)

OperationIds == {"List_Quote", "Get_Quote", "global"}

QuotaArgs ==
    {Quota(0, 0, 0), Quota(0, 1, 1), Quota(MaxLimit, MaxLimit - 1, MaxLimit),
     Quota(0, 0, MaxLimit), Quota(-1, 0, 0)}
    \cup {Quota(n, 0, 0) : n \in 1..MaxLimit}

RECURSIVE TotalCalls(_)
TotalCalls(d) ==
    IF d = << >> THEN 0 ELSE Head(d).global.total_calls + TotalCalls(Tail(d))

(* the counting explored: fewer than MaxCalls calls counted so far *)
WithinBounds(d, operation_id) ==
    operation_id \in ReservedNames \/ TotalCalls(d) < MaxCalls

(* a finished call that can raise: its name and key, what the caller got (a normal *)
(* return is Allowed, otherwise the error raised) and whether an HTTP request was  *)
(* sent                                                                            *)
Call(op, api_key, result, sent) ==
    [op |-> op, api_key |-> api_key, result |-> result, sent |-> sent]

(* after a call that returns nothing and cannot raise: start, stop, reset, enable_quotas *)
Returned == Call("none", None, Allowed, FALSE)

-----------------------------------------------------------------------------
(* State machine *)

Init ==
    /\ data = << >>
    /\ _is_running = FALSE
    /\ _last_cleanup_time = NoTime
    /\ last = Returned
    /\ now = 0
    /\ calls = << >>
    /\ file = NoFile
    /\ saved = << >>
    /\ input = ""
    /\ text = ""
    /\ threads = << >>

(* variant: start flips the session state *)
StartToggles ==
    /\ _is_running' = ~_is_running
    /\ last' = Returned
    /\ UNCHANGED <<data, _last_cleanup_time, now, calls, file, input, text, saved, threads>>

Start ==
    /\ _is_running' = TRUE
    /\ last' = Returned
    /\ UNCHANGED <<data, _last_cleanup_time, now, calls, file, input, text, saved, threads>>

(* variant: stop ends the session and zeroes its counters *)
StopResetting ==
    /\ _is_running' = FALSE
    /\ data' = reset(data)
    /\ last' = Returned
    /\ UNCHANGED <<_last_cleanup_time, now, calls, file, input, text, saved, threads>>

Stop ==
    /\ _is_running' = FALSE
    /\ last' = Returned
    /\ UNCHANGED <<data, _last_cleanup_time, now, calls, file, input, text, saved, threads>>

Reset ==
    /\ data' = reset(data)
    /\ last' = Returned
    /\ calls' = << >>
    /\ UNCHANGED <<_is_running, _last_cleanup_time, now, file, input, text, saved, threads>>

(* variant: the key's record is looked up before the running state is tested *)
IncrementCallLooksUpFirst(api_key, operation_id, current_time) ==
    IF ~_is_running
    THEN /\ data' = _get_api_key_data(data, api_key)
         /\ last' = Call("increment_call", None, Allowed, FALSE)
         /\ UNCHANGED <<_is_running, _last_cleanup_time>>
    ELSE /\ WithinBounds(data, operation_id)
         /\ data' = increment_call(data, api_key, operation_id)
         /\ _last_cleanup_time' =
                IF IncrementError(operation_id) = "ok"
                THEN _cleanup_old_data(_last_cleanup_time, current_time)
                ELSE _last_cleanup_time
         /\ last' = Call("increment_call", None,
                         Raised(IncrementError(operation_id)), FALSE)
         /\ UNCHANGED _is_running

(* increment_call when time.time() gives current_time: its effect on the tracker *)
IncrementCallAt(api_key, operation_id, current_time) ==
    IF ~_is_running
    THEN /\ last' = Call("increment_call", None, Allowed, FALSE)
         /\ UNCHANGED <<data, _is_running, _last_cleanup_time>>
    ELSE /\ WithinBounds(data, operation_id)
         /\ data' = increment_call(data, api_key, operation_id)
         /\ _last_cleanup_time' =
                IF IncrementError(operation_id) = "ok"
                THEN _cleanup_old_data(_last_cleanup_time, current_time)
                ELSE _last_cleanup_time
         /\ last' = Call("increment_call", None,
                         Raised(IncrementError(operation_id)), FALSE)
         /\ UNCHANGED _is_running

(* increment_call at any reading of the clock *)
IncrementCall(api_key, operation_id, current_time) ==
    /\ IncrementCallAt(api_key, operation_id, current_time)
    /\ UNCHANGED <<now, calls, file, input, text, saved, threads>>

(* increment_call at the clock reading now, the call noted in calls when it is counted *)
IncrementCallNow(api_key, operation_id) ==
    /\ IncrementCallAt(api_key, operation_id, now)
    /\ calls' = IF _is_running /\ IncrementError(operation_id) = "ok"
                THEN Append(calls, [api_key |-> api_key, operation_id |-> operation_id,
                                    time |-> now])
                ELSE calls
    /\ UNCHANGED <<now, file, input, text, saved, threads>>

EnableQuotas(api_key, q) ==
    /\ data' = enable_quotas(data, api_key, q)
    /\ last' = Returned
    /\ UNCHANGED <<_is_running, _last_cleanup_time, now, calls, file, input, text, saved, threads>>

(* variant: the quota is checked whatever the running state *)
CheckQuotaWhenStopped(api_key) ==
    /\ data' = _get_api_key_data(data, api_key)
    /\ last' = Call("check_quota", api_key, check_quota(data, api_key), FALSE)
    /\ UNCHANGED <<_is_running, _last_cleanup_time, now, calls, file, input, text, saved, threads>>

CheckQuota(api_key) ==
    /\ IF ~_is_running
       THEN /\ last' = Call("check_quota", api_key, Allowed, FALSE)
            /\ UNCHANGED <<data, _is_running, _last_cleanup_time>>
       ELSE /\ data' = _get_api_key_data(data, api_key)
            /\ last' = Call("check_quota", api_key,
                            check_quota(data, api_key), FALSE)
            /\ UNCHANGED <<_is_running, _last_cleanup_time>>
    /\ UNCHANGED <<now, calls, file, input, text, saved, threads>>

(* variant: the export hands the records over and starts the list anew *)
SaveToFileFlushing ==
    /\ file' = JsonFile(json_dump(data))
    /\ last' = Call("save_to_file", None, Allowed, FALSE)
    /\ saved' = data
    /\ data' = << >>
    /\ UNCHANGED <<_is_running, _last_cleanup_time, now, calls, input, text, threads>>

SaveToFile ==
    /\ file' = JsonFile(json_dump(data))
    /\ last' = Call("save_to_file", None, Allowed, FALSE)
    /\ saved' = data
    /\ UNCHANGED <<data, _is_running, _last_cleanup_time, now, calls, input, text, threads>>

(* variant: the import keeps the records of keys the file does not have *)
LoadFromFileMerging ==
    /\ data' = IF file.kind = "json"
               THEN json_load(file.doc)
                    \o SelectSeq(data, LAMBDA rec :
                          \A i \in 1..Len(file.doc) :
                              EntryDict(file.doc[i]).api_key_masked # rec.api_key_masked)
               ELSE data
    /\ last' = Call("load_from_file", None, Allowed, FALSE)
    /\ UNCHANGED <<_is_running, _last_cleanup_time, now, calls, file, input, text, saved, threads>>

(* FileNotFoundError and json.JSONDecodeError are caught and the call returns *)
LoadFromFile ==
    /\ data' = IF file.kind = "json" THEN json_load(file.doc) ELSE data
    /\ last' = Call("load_from_file", None, Allowed, FALSE)
    /\ UNCHANGED <<_is_running, _last_cleanup_time, now, calls, file, input, text, saved, threads>>

Summary ==
    /\ input' = ""
    /\ text' = summary(data)
    /\ last' = Call("summary", None, Allowed, FALSE)
    /\ UNCHANGED <<data, _is_running, _last_cleanup_time, now, calls, file, saved, threads>>

(* outside the tracker, the file is removed or overwritten: with text that is not *)
(* JSON, or with JSON that is not a list of per-key records                       *)
FileDamaged ==
    /\ file' \in {NoFile, NotJson, JsonFile(MalformedDoc)}
    /\ UNCHANGED <<data, _is_running, _last_cleanup_time, last, now, calls,
                   input, text, saved, threads>>

(* _request: the accounting block, then the HTTP exchange unless the block re-raised *)
Request(client, endpoint, response) ==
    LET operation_id == OperationId(endpoint)
        counting == client.accounting /\ _is_running
        incremented == counting /\ IncrementError(operation_id) = "ok"
        incError == IF counting THEN IncrementError(operation_id) ELSE "ok"
        data1 == IF counting
                 THEN increment_call(data, client.api_key, operation_id)
                 ELSE data
        checked == client.accounting /\ incError = "ok"
                   /\ RequestCheckQuotaArgs = CheckQuotaArity /\ _is_running
        checkError ==
            IF ~client.accounting \/ incError # "ok" THEN incError
            ELSE IF RequestCheckQuotaArgs # CheckQuotaArity THEN "TypeError"
            ELSE IF _is_running THEN check_quota(data1, client.api_key).kind
            ELSE "ok"
        data2 == IF checked THEN _get_api_key_data(data1, client.api_key) ELSE data1
    IN  /\ counting => WithinBounds(data, operation_id)
        /\ data' = data2
        /\ IF incremented
           THEN \E current_time \in Times :
                    _last_cleanup_time' =
                        _cleanup_old_data(_last_cleanup_time, current_time)
           ELSE _last_cleanup_time' = _last_cleanup_time
        /\ last' =
               IF Reraised(checkError)
               THEN Call("_request", client.api_key,
                         IF checked /\ checkError = "OutOfQuotaError"
                         THEN check_quota(data1, client.api_key)
                         ELSE Raised(checkError), FALSE)
               ELSE Call("_request", client.api_key,
                         HttpResult(response), TRUE)
        /\ UNCHANGED <<_is_running, now, calls, file, input, text, saved, threads>>

Next ==
    \/ Start
    \/ Stop
    \/ Reset
    \/ \E api_key \in CountedKeys, operation_id \in OperationIds, current_time \in Times :
           IncrementCall(api_key, operation_id, current_time)
    \/ \E api_key \in Keys, q \in QuotaArgs : EnableQuotas(api_key, q)
    \/ \E api_key \in Keys : CheckQuota(api_key)
    \/ \E client \in Clients, endpoint \in Endpoints, response \in Responses :
           Request(client, endpoint, response)

Spec == Init /\ [][Next]_vars

(* The same tracker when enable_quotas is never called for one of the keys *)
UnconfiguredKey == "ABCD2222WXYZ"

NextUnconfigured ==
    \/ Start
    \/ Stop
    \/ Reset
    \/ \E api_key \in CountedKeys, operation_id \in OperationIds, current_time \in Times :
           IncrementCall(api_key, operation_id, current_time)
    \/ \E api_key \in Keys \ {UnconfiguredKey}, q \in QuotaArgs : EnableQuotas(api_key, q)
    \/ \E api_key \in Keys : CheckQuota(api_key)
    \/ \E client \in Clients, endpoint \in Endpoints, response \in Responses :
           Request(client, endpoint, response)

SpecUnconfigured == Init /\ [][NextUnconfigured]_vars

(* The tracker while the wall clock passes: the clock is read by increment_call, *)
(* nothing in the tracker runs on its own when time passes                       *)
ClockTimes == {0, Window60s + 1, Window24h + 1}

Tick ==
    /\ \E t \in ClockTimes : t > now /\ now' = t
    /\ UNCHANGED <<data, _is_running, _last_cleanup_time, last, calls, file,
                   input, text, saved, threads>>

(* one key with calls counted, so that every call counted in a record is this key's *)
WindowKeys == {"ABCD1111WXYZ"}

WindowQuotaArgs == {Quota(0, 1, 0), Quota(0, 0, 1), Quota(MaxLimit, MaxLimit - 1, MaxLimit)}

NextWindows ==
    \/ Start
    \/ Stop
    \/ Reset
    \/ Tick
    \/ \E api_key \in WindowKeys, operation_id \in OperationIds :
           IncrementCallNow(api_key, operation_id)
    \/ \E api_key \in WindowKeys, q \in WindowQuotaArgs : EnableQuotas(api_key, q)
    \/ \E api_key \in WindowKeys : CheckQuota(api_key)

SpecWindows == Init /\ [][NextWindows]_vars

(* The tracker with every operation of its session, one key and one operation counted *)
SessionKeys == {"ABCD1111WXYZ"}

SessionOperationIds == {"List_Quote", "global"}

SessionQuotaArgs == {Quota(1, 0, 0), Quota(MaxLimit, MaxLimit - 1, MaxLimit)}

NextSession ==
    \/ Start
    \/ Stop
    \/ Reset
    \/ \E api_key \in SessionKeys, operation_id \in SessionOperationIds,
          current_time \in Times :
           IncrementCall(api_key, operation_id, current_time)
    \/ \E api_key \in SessionKeys, q \in SessionQuotaArgs : EnableQuotas(api_key, q)
    \/ \E api_key \in SessionKeys : CheckQuota(api_key)
    \/ SaveToFile
    \/ LoadFromFile
    \/ FileDamaged

SpecSession == Init /\ [][NextSession]_vars

(* The client on a tracker that only its requests count on: endpoints of the API *)
(* modules and one of a single segment                                           *)
ClientEndpoints == Endpoints \cup {"global"}

ClientQuotaArgs == {Quota(1, 0, 0)}

NextClient ==
    \/ Start
    \/ Stop
    \/ Reset
    \/ \E client \in Clients, q \in ClientQuotaArgs :
          client.accounting /\ EnableQuotas(client.api_key, q)
    \/ \E client \in Clients, endpoint \in ClientEndpoints, response \in Responses :
           Request(client, endpoint, response)

SpecClient == Init /\ [][NextClient]_vars

(* the read-only views, in both session states, for a key the mask shortens and a *)
(* key it does not                                                                *)
ViewKeys == {"ABCD1111WXYZ", "short"}

ViewOperationIds == {"List_Quote"}

NextViews ==
    \/ Start
    \/ Stop
    \/ \E api_key \in ViewKeys, operation_id \in ViewOperationIds,
          current_time \in {0} :
            IncrementCall(api_key, operation_id, current_time)
    \/ \E api_key \in ViewKeys : CheckQuota(api_key)
    \/ SaveToFile
    \/ Summary

SpecViews == Init /\ [][NextViews]_vars

(* increment_call on several threads. The tracker has no lock; a thread can be     *)
(* switched out wherever the interpreter can switch: after the lookup loop of      *)
(* _get_api_key_data, between the membership test and the assignment of the new     *)
(* operation entry (the dict literal calls datetime.now()), and, on builds that     *)
(* switch between any two instructions or run threads in parallel, between the      *)
(* load and the store of a += statement.                                            *)
MaxThreads == 2

ThreadKeys == {"ABCD1111WXYZ"}

ThreadOperationIds == {"List_Quote", "Get_Quote"}

Thread(api_key, operation_id) ==
    [pc |-> "enter", api_key |-> api_key, operation_id |-> operation_id,
     rec |-> 0, c |-> Counters(0), counted |-> FALSE]

ThreadAt(t, pc) == t \in 1..Len(threads) /\ threads[t].pc = pc

(* a thread calls increment_call *)
Spawn(api_key, operation_id) ==
    /\ Len(threads) < MaxThreads
    /\ threads' = Append(threads, Thread(api_key, operation_id))
    /\ UNCHANGED <<data, _is_running, _last_cleanup_time, last, now, calls, file,
                   saved, input, text>>

(* lines 124-127 and the loop of _get_api_key_data, lines 100-102 *)
ThreadGetApiKeyData(t) ==
    /\ ThreadAt(t, "enter")
    /\ threads' =
          [threads EXCEPT ![t] =
              IF ~_is_running THEN [@ EXCEPT !.pc = "done"]
              ELSE IF FindApiKeyData(data, @.api_key) = 0
              THEN [@ EXCEPT !.pc = "append", !.counted = TRUE]
              ELSE [@ EXCEPT !.pc = "test", !.counted = TRUE,
                             !.rec = FindApiKeyData(data, threads[t].api_key)]]
    /\ UNCHANGED <<data, _is_running, _last_cleanup_time, last, now, calls, file,
                   saved, input, text>>

(* lines 105-114: the new dict is appended and returned *)
ThreadAppendApiKeyData(t) ==
    /\ ThreadAt(t, "append")
    /\ data' = Append(data, NewApiKeyData(threads[t].api_key))
    /\ threads' = [threads EXCEPT ![t] = [@ EXCEPT !.pc = "test", !.rec = Len(data) + 1]]
    /\ UNCHANGED <<_is_running, _last_cleanup_time, last, now, calls, file,
                   saved, input, text>>

(* line 130: operation_id not in api_key_data *)
ThreadTestOperation(t) ==
    /\ ThreadAt(t, "test")
    /\ threads' =
          [threads EXCEPT ![t] =
              [@ EXCEPT !.pc = IF OpIndex(data[threads[t].rec].ops,
                                          threads[t].operation_id) = 0
                               THEN "create" ELSE "load"]]
    /\ UNCHANGED <<data, _is_running, _last_cleanup_time, last, now, calls, file,
                   saved, input, text>>

(* lines 131-151: api_key_data[operation_id] = {...}, replacing an entry that is there *)
ThreadCreateOperation(t) ==
    /\ ThreadAt(t, "create")
    /\ LET rec == threads[t].rec
           operation_id == threads[t].operation_id
           j == OpIndex(data[rec].ops, operation_id)
       IN  data' = [data EXCEPT ![rec].ops =
                       IF j = 0 THEN Append(@, NewOperation(operation_id))
                       ELSE [@ EXCEPT ![j] = NewOperation(operation_id)]]
    /\ threads' = [threads EXCEPT ![t] = [@ EXCEPT !.pc = "load"]]
    /\ UNCHANGED <<_is_running, _last_cleanup_time, last, now, calls, file,
                   saved, input, text>>

(* lines 154-160: the counters of the operation are read ... *)
ThreadLoadTotals(t) ==
    /\ ThreadAt(t, "load")
    /\ LET rec == threads[t].rec
           j == OpIndex(data[rec].ops, threads[t].operation_id)
       IN  threads' = [threads EXCEPT ![t] =
                          [@ EXCEPT !.pc = "store", !.c = data[rec].ops[j].totals]]
    /\ UNCHANGED <<data, _is_running, _last_cleanup_time, last, now, calls, file,
                   saved, input, text>>

(* ... and written back one higher *)
ThreadStoreTotals(t) ==
    /\ ThreadAt(t, "store")
    /\ LET rec == threads[t].rec
           j == OpIndex(data[rec].ops, threads[t].operation_id)
       IN  data' = [data EXCEPT ![rec].ops[j].totals = Bump(threads[t].c)]
    /\ threads' = [threads EXCEPT ![t] = [@ EXCEPT !.pc = "load_global"]]
    /\ UNCHANGED <<_is_running, _last_cleanup_time, last, now, calls, file,
                   saved, input, text>>

(* lines 166-168: the aggregate counters are read ... *)
ThreadLoadGlobal(t) ==
    /\ ThreadAt(t, "load_global")
    /\ threads' = [threads EXCEPT ![t] =
                      [@ EXCEPT !.pc = "store_global",
                                !.c = data[threads[t].rec].global]]
    /\ UNCHANGED <<data, _is_running, _last_cleanup_time, last, now, calls, file,
                   saved, input, text>>

(* ... and written back one higher; line 171, and the call returns *)
ThreadStoreGlobal(t) ==
    /\ ThreadAt(t, "store_global")
    /\ data' = [data EXCEPT ![threads[t].rec].global = Bump(threads[t].c)]
    /\ _last_cleanup_time' = _cleanup_old_data(_last_cleanup_time, now)
    /\ threads' = [threads EXCEPT ![t] = [@ EXCEPT !.pc = "done"]]
    /\ UNCHANGED <<_is_running, last, now, calls, file, saved, input, text>>

NextThreads ==
    \/ Start
    \/ \E api_key \in ThreadKeys, operation_id \in ThreadOperationIds :
          Spawn(api_key, operation_id)
    \/ \E t \in 1..MaxThreads :
          \/ ThreadGetApiKeyData(t)
          \/ ThreadAppendApiKeyData(t)
          \/ ThreadTestOperation(t)
          \/ ThreadCreateOperation(t)
          \/ ThreadLoadTotals(t)
          \/ ThreadStoreTotals(t)
          \/ ThreadLoadGlobal(t)
          \/ ThreadStoreGlobal(t)

SpecThreads == Init /\ [][NextThreads]_vars

(* _mask_api_key on keys of every length up to MaxKeyLen, each one character *)
(* longer than the one before                                                *)
KeyAlphabet == {"k", "*"}

MaskApiKey(c) ==
    /\ Len(input) < MaxKeyLen
    /\ input' = input \o c
    /\ text' = _mask_api_key(input \o c)
    /\ UNCHANGED <<data, _is_running, _last_cleanup_time, last, now, calls, file,
                   saved, threads>>

NextMask ==
    \/ Start
    \/ Stop
    \/ \E c \in KeyAlphabet : MaskApiKey(c)

SpecMask == Init /\ [][NextMask]_vars

(* the operation id _request derives, for endpoints grown one path segment at a time *)
MaxSegments == 3

PathSegments == {"Quote", "List", "Get", "api", "NASDAQ", ""}

(* _request is called with the endpoint of the call before it and one more segment; *)
(* the first call may give its endpoint with or without the leading slash           *)
DeriveOperationId(segment, slash) ==
    /\ Len(Split(input \o slash \o segment)) <= MaxSegments + 1
    /\ slash = "" => input = ""
    /\ input' = input \o slash \o segment
    /\ text' = OperationId(input \o slash \o segment)
    /\ UNCHANGED <<data, _is_running, _last_cleanup_time, last, now, calls, file, saved, threads>>

NextOperationId ==
    \E segment \in PathSegments, slash \in {"", "/"} : DeriveOperationId(segment, slash)

SpecOperationId == Init /\ [][NextOperationId]_vars

(* The tracker of a session that is never reset or loaded, the calls noted *)
NextLifetime ==
    \/ Start
    \/ Stop
    \/ Tick
    \/ \E api_key \in CountedKeys, operation_id \in OperationIds :
           IncrementCallNow(api_key, operation_id)
    \/ \E api_key \in Keys, q \in WindowQuotaArgs : EnableQuotas(api_key, q)
    \/ \E api_key \in Keys : CheckQuota(api_key)

SpecLifetime == Init /\ [][NextLifetime]_vars

-----------------------------------------------------------------------------
(* What the claims speak of *)

HasRecord(api_key) == FindApiKeyData(data, api_key) # 0

KeyRecord(api_key) == data[FindApiKeyData(data, api_key)]

(* the limits stored for the key of a record: those of its operation entries that *)
(* have quota checking enabled                                                    *)
StoredLimits(rec) ==
    {rec.ops[j].quotas : j \in {i \in 1..Len(rec.ops) : rec.ops[i].status.quotas_enabled}}

Dims == <<"total", "calls_60s", "calls_24h">>

LimitOf(q, dim) ==
    CASE dim = "total" -> q.total
      [] dim = "calls_60s" -> q.calls_60s
      [] dim = "calls_24h" -> q.calls_24h

CountOf(c, dim) ==
    CASE dim = "total" -> c.total_calls
      [] dim = "calls_60s" -> c.calls_60s
      [] dim = "calls_24h" -> c.calls_24h

RECURSIVE SumOps(_, _)
SumOps(ops, dim) ==
    IF ops = << >> THEN 0 ELSE CountOf(Head(ops).totals, dim) + SumOps(Tail(ops), dim)

Denied == last.result.kind = "OutOfQuotaError"

(* check_quota has just answered for a key of a running tracker with quotas enabled *)
Checked ==
    /\ last.op = "check_quota"
    /\ _is_running
    /\ HasRecord(last.api_key)
    /\ StoredLimits(KeyRecord(last.api_key)) # {}

Attached(api_key) == \E client \in Clients : client.accounting /\ client.api_key = api_key

-----------------------------------------------------------------------------
(* C1: in _request with a running tracker attached, when the quota decision for  *)
(* the client's key after the increment is Denied, no HTTP request is sent in    *)
(* that call and OutOfQuotaError reaches the caller.                             *)
C1_DeniedRequestIsAborted ==
    ( /\ last.op = "_request"
      /\ Attached(last.api_key)
      /\ _is_running
      /\ check_quota(data, last.api_key).kind = "OutOfQuotaError" )
    => (~last.sent /\ last.result.kind = "OutOfQuotaError")

(* C2: with the tracker running and quotas enabled for the key, check_quota      *)
(* raises OutOfQuotaError exactly when some limit L > 0 has the key's aggregate  *)
(* count >= L.                                                                   *)
C2_DeniedIffLimitReached ==
    Checked =>
        \A q \in StoredLimits(KeyRecord(last.api_key)) :
            Denied <=>
                \E i \in 1..3 :
                    /\ LimitOf(q, Dims[i]) > 0
                    /\ CountOf(KeyRecord(last.api_key).global, Dims[i]) >= LimitOf(q, Dims[i])

(* a denial on the boundary: the count equals the limit *)
C2_Witness ==
    /\ Checked
    /\ Denied
    /\ last.result.current = last.result.limit

SingleLimit(q, dim, n) ==
    /\ n > 0
    /\ LimitOf(q, dim) = n
    /\ \A i \in 1..3 : Dims[i] # dim => LimitOf(q, Dims[i]) = 0

(* C4: with a single non-zero limit N, the call that reaches the limit is still  *)
(* allowed: a check made after the increment denies only from the (N+1)-th       *)
(* counted call on.                                                              *)
C4_CallReachingLimitIsAllowed ==
    Checked =>
        \A q \in StoredLimits(KeyRecord(last.api_key)) :
            \A i \in 1..3, n \in 1..MaxLimit :
                SingleLimit(q, Dims[i], n) =>
                    (Denied <=> CountOf(KeyRecord(last.api_key).global, Dims[i]) >= n + 1)

(* C5: the quota is enforced against the calls of all the key's operations       *)
(* together: check_quota denies exactly when the counts summed over the key's    *)
(* operations reach a set limit, however the calls are spread over operations.   *)
C5_EnforcedOnAggregate ==
    Checked =>
        \A q \in StoredLimits(KeyRecord(last.api_key)) :
            Denied <=>
                \E i \in 1..3 :
                    /\ LimitOf(q, Dims[i]) > 0
                    /\ SumOps(KeyRecord(last.api_key).ops, Dims[i]) >= LimitOf(q, Dims[i])

(* a denial while every single operation of the key is below the limit reported *)
C5_Witness ==
    /\ Checked
    /\ Denied
    /\ Len(KeyRecord(last.api_key).ops) >= 2
    /\ \A j \in 1..Len(KeyRecord(last.api_key).ops) :
           CountOf(KeyRecord(last.api_key).ops[j].totals, last.result.quota_type)
               < last.result.limit

(* n further counted calls of one operation *)
RECURSIVE Counted(_, _, _, _)
Counted(d, api_key, operation_id, n) ==
    IF n = 0 THEN d
    ELSE Counted(increment_call(d, api_key, operation_id), api_key, operation_id, n - 1)

(* some set limit of q is reached by the aggregate counters of the key in d *)
Reached(q, d, api_key) ==
    \E i \in 1..3 :
        /\ LimitOf(q, Dims[i]) > 0
        /\ CountOf(d[FindApiKeyData(d, api_key)].global, Dims[i]) >= LimitOf(q, Dims[i])

(* check_quota enforces exactly the limits q on the key: after any number of    *)
(* further counted calls it denies exactly when a set limit of q is reached     *)
Enforces(d, api_key, q) ==
    \A n \in 1..MaxLimit :
        LET later == Counted(d, api_key, "List_Quote", n)
        IN  (check_quota(later, api_key).kind = "OutOfQuotaError")
                <=> Reached(q, later, api_key)

(* C6: enable_quotas on a key not seen before creates the key's account and     *)
(* stores the limits, so that later increments of the key are denied once a     *)
(* limit is reached.                                                            *)
C6_EnableOnUnseenKeyTakesEffect ==
    [][\A api_key \in Keys, q \in QuotaArgs :
           (~HasRecord(api_key) /\ EnableQuotas(api_key, q)) =>
               /\ FindApiKeyData(data', api_key) # 0
               /\ Enforces(data', api_key, q)]_vars

(* C7: after two enable_quotas calls for a key the limits enforced are exactly  *)
(* those of the second call, and repeating the call changes nothing.            *)
C7_LastWriteWins ==
    [][\A api_key \in Keys, q1 \in QuotaArgs, q2 \in QuotaArgs :
           EnableQuotas(api_key, q1) =>
               LET second == enable_quotas(data', api_key, q2)
               IN  /\ Enforces(second, api_key, q2)
                   /\ enable_quotas(second, api_key, q2) = second]_vars

HasNegative(q) == \E i \in 1..3 : LimitOf(q, Dims[i]) < 0

(* the quota values and enabled flags stored for a key *)
QuotaConfig(d, api_key) ==
    IF FindApiKeyData(d, api_key) = 0 THEN << >>
    ELSE [j \in 1..Len(d[FindApiKeyData(d, api_key)].ops) |->
             <<d[FindApiKeyData(d, api_key)].ops[j].quotas,
               d[FindApiKeyData(d, api_key)].ops[j].status.quotas_enabled>>]

(* C8: enable_quotas with a negative limit fails with an error and leaves the   *)
(* key's quota values and enabled flags as they were.                           *)
C8_NegativeLimitIsRejected ==
    [][\A api_key \in Keys, q \in QuotaArgs :
           (HasNegative(q) /\ EnableQuotas(api_key, q)) =>
               /\ last'.result.kind # "ok"
               /\ QuotaConfig(data', api_key) = QuotaConfig(data, api_key)]_vars

(* C9: check_quota never denies a key for which enable_quotas was never called, *)
(* whatever the counters and whatever quotas other keys have.                   *)
C9_UnconfiguredKeyIsAllowed ==
    (last.op = "check_quota" /\ last.api_key = UnconfiguredKey) => ~Denied

(* C10: a limit of 0 is unset: check_quota never denies on a dimension whose    *)
(* limit is 0, and never denies at all when the three limits are 0.             *)
C10_ZeroLimitIsUnset ==
    Checked =>
        \A q \in StoredLimits(KeyRecord(last.api_key)) :
            /\ \A i \in 1..3 :
                   LimitOf(q, Dims[i]) = 0 => ~(Denied /\ last.result.quota_type = Dims[i])
            /\ (\A i \in 1..3 : LimitOf(q, Dims[i]) = 0) => ~Denied

(* a check that allows although calls were counted on a key whose limits are all 0 *)
C10_Witness ==
    /\ Checked
    /\ ~Denied
    /\ Quota(0, 0, 0) \in StoredLimits(KeyRecord(last.api_key))
    /\ KeyRecord(last.api_key).global.total_calls >= 1

-----------------------------------------------------------------------------
(* the calls counted for a key, or for one of its operations, that are no older *)
(* than window seconds at the clock reading t                                   *)
InWindow(api_key, t, window) ==
    {i \in 1..Len(calls) :
        calls[i].api_key = api_key /\ t - calls[i].time <= window}

InWindowOf(api_key, operation_id, t, window) ==
    {i \in InWindow(api_key, t, window) : calls[i].operation_id = operation_id}

(* C11: at any time now, the 60-second count of a key and of each of its        *)
(* operations equals the number of its counted calls with age now - t <= 60 s,  *)
(* and the 24-hour count the number with age <= 24 h.                           *)
C11_WindowCountsAreRelativeToNow ==
    \A api_key \in WindowKeys :
        HasRecord(api_key) =>
            /\ KeyRecord(api_key).global.calls_60s
                   = Cardinality(InWindow(api_key, now, Window60s))
            /\ KeyRecord(api_key).global.calls_24h
                   = Cardinality(InWindow(api_key, now, Window24h))
            /\ \A j \in 1..Len(KeyRecord(api_key).ops) :
                   LET op == KeyRecord(api_key).ops[j]
                   IN  /\ op.totals.calls_60s
                              = Cardinality(InWindowOf(api_key, op.id, now, Window60s))
                       /\ op.totals.calls_24h
                              = Cardinality(InWindowOf(api_key, op.id, now, Window24h))

WindowLength(dim) ==
    CASE dim = "calls_60s" -> Window60s
      [] dim = "calls_24h" -> Window24h

(* C12: a key whose only limit is a window limit and that check_quota denied on *)
(* that limit is allowed again by check_quota once every counted call of the    *)
(* key is older than the window, no call and no reset having been made since.   *)
C12_WindowDenialsExpire ==
    \A dim \in {"calls_60s", "calls_24h"} :
        ( /\ Checked
          /\ Denied
          /\ last.result.quota_type = dim
          /\ \A q \in StoredLimits(KeyRecord(last.api_key)) :
                 SingleLimit(q, dim, last.result.limit)
          /\ InWindow(last.api_key, now, WindowLength(dim)) = {} )
        => check_quota(data, last.api_key) = Allowed

-----------------------------------------------------------------------------
(* the increment_call invocations counted for a record: those made while running *)
(* that returned, with a key the record is looked up by                          *)
AcceptedFor(rec) ==
    {i \in 1..Len(calls) : _mask_api_key(calls[i].api_key) = rec.api_key_masked}

AcceptedForOp(rec, operation_id) ==
    {i \in AcceptedFor(rec) : calls[i].operation_id = operation_id}

TotalsAreCallsAccepted ==
    \A i \in 1..Len(data) :
        /\ data[i].global.total_calls = Cardinality(AcceptedFor(data[i]))
        /\ \A j \in 1..Len(data[i].ops) :
               data[i].ops[j].totals.total_calls
                   = Cardinality(AcceptedForOp(data[i], data[i].ops[j].id))

TotalsNeverDecrease ==
    \A i \in 1..Len(data) :
        /\ Len(data') >= Len(data)
        /\ data'[i].global.total_calls >= data[i].global.total_calls
        /\ \A j \in 1..Len(data[i].ops) :
               /\ Len(data'[i].ops) >= Len(data[i].ops)
               /\ data'[i].ops[j].totals.total_calls >= data[i].ops[j].totals.total_calls

(* C13: in a session without reset or load every total_calls counter never      *)
(* decreases and equals the number of increment_call invocations accepted for   *)
(* it while running, calls made at the same instant counted one by one.         *)
C13_TotalNeverDecays ==
    [][TotalsNeverDecrease /\ TotalsAreCallsAccepted']_vars

(* two calls of one operation counted at the same clock reading, after time has passed *)
C13_Witness ==
    /\ now > 0
    /\ \E i \in 1..Len(data) : \E j \in 1..Len(data[i].ops) :
           /\ data[i].ops[j].totals.total_calls = MaxCalls
           /\ \A c \in AcceptedForOp(data[i], data[i].ops[j].id) : calls[c].time = 0

-----------------------------------------------------------------------------
(* a step of an operation other than start and stop *)
OtherOperation ==
    \/ Reset
    \/ SaveToFile
    \/ LoadFromFile
    \/ \E api_key \in SessionKeys, operation_id \in SessionOperationIds,
          current_time \in Times :
           IncrementCall(api_key, operation_id, current_time)
    \/ \E api_key \in SessionKeys, q \in SessionQuotaArgs : EnableQuotas(api_key, q)
    \/ \E api_key \in SessionKeys : CheckQuota(api_key)

(* C14: a new tracker is Stopped; start leaves it Running and stop leaves it    *)
(* Stopped, from either state; increment_call, check_quota, enable_quotas,      *)
(* reset, save_to_file and load_from_file leave the running state as it was.    *)
C14_SessionIsTwoStateMachine ==
    /\ ~_is_running
    /\ [][/\ Start => _is_running'
          /\ Stop => ~_is_running'
          /\ OtherOperation => (_is_running' = _is_running)]_vars

(* C15: while the tracker is Stopped increment_call returns without raising and *)
(* leaves the whole accounting state as it was: no key record and no operation  *)
(* entry is created and no counter changes.                                     *)
C15_StoppedIncrementIsNoOp ==
    [][(~_is_running /\ last'.op = "increment_call") =>
           /\ last'.result = Allowed
           /\ UNCHANGED <<data, _is_running, _last_cleanup_time, calls, file>>]_vars

(* increment_call has returned on a Stopped tracker that holds counts of an  *)
(* earlier Running period                                                    *)
C15_Witness ==
    /\ ~_is_running
    /\ last.op = "increment_call"
    /\ TotalCalls(data) >= 1

(* C16: while the tracker is Stopped check_quota allows every key, whatever   *)
(* counters and quotas are stored, also when a counter is at or above an      *)
(* enabled limit.                                                             *)
C16_StoppedCheckAllows ==
    (~_is_running /\ last.op = "check_quota") => last.result = Allowed

(* check_quota has allowed on a Stopped tracker a key it denies when Running *)
C16_Witness ==
    /\ ~_is_running
    /\ last.op = "check_quota"
    /\ last.result = Allowed
    /\ check_quota(data, last.api_key).kind = "OutOfQuotaError"

(* the keys and operations of the data list, with the quota values and flags stored *)
Configuration(d) ==
    [i \in 1..Len(d) |->
        [api_key_masked |-> d[i].api_key_masked,
         ops |-> [j \in 1..Len(d[i].ops) |->
                     [id |-> d[i].ops[j].id,
                      quotas |-> d[i].ops[j].quotas,
                      status |-> d[i].ops[j].status]]]]

AllCountersZero(d) ==
    \A i \in 1..Len(d) :
        /\ d[i].global = Counters(0)
        /\ \A j \in 1..Len(d[i].ops) : d[i].ops[j].totals = Counters(0)

(* C17: reset, Running or Stopped, sets the total, 60-second and 24-hour        *)
(* counters of every operation and of every key aggregate to zero and leaves    *)
(* the quota values, the quotas-enabled flags, the keys and operations and the  *)
(* running state unchanged.                                                     *)
C17_ResetZeroesCountersOnly ==
    [][Reset =>
           /\ AllCountersZero(data')
           /\ Configuration(data') = Configuration(data)
           /\ _is_running' = _is_running]_vars

(* after a reset on a Stopped tracker: an operation with a limit enabled and no count *)
C17_Witness ==
    /\ ~_is_running
    /\ last = Returned
    /\ AllCountersZero(data)
    /\ \E i \in 1..Len(data) : \E j \in 1..Len(data[i].ops) :
           /\ data[i].ops[j].status.quotas_enabled
           /\ data[i].ops[j].quotas.total > 0

(* C18: after enable_quotas and any number of increments, also enough to be     *)
(* denied, reset makes the next check_quota allow, and the limits given to      *)
(* enable_quotas are enforced after the reset without another enable_quotas:    *)
(* further increments are denied exactly when they reach a limit.               *)
C18_ResetKeepsLimits ==
    [][\A api_key \in Keys, q \in QuotaArgs :
           (_is_running /\ EnableQuotas(api_key, q)) =>
               \A n \in 0..MaxLimit :
                   LET after == reset(Counted(data', api_key, "List_Quote", n))
                   IN  /\ check_quota(after, api_key) = Allowed
                       /\ Enforces(after, api_key, q)]_vars

(* what a lookup of the key finds in d: its aggregate counters and its operation *)
(* entries, none and zero when there is no record                               *)
CountersOfKey(d, api_key) ==
    IF FindApiKeyData(d, api_key) = 0 THEN Counters(0)
    ELSE d[FindApiKeyData(d, api_key)].global

OpsOfKey(d, api_key) ==
    IF FindApiKeyData(d, api_key) = 0 THEN << >>
    ELSE d[FindApiKeyData(d, api_key)].ops

PlusOne(c, c1) ==
    /\ c1.total_calls = c.total_calls + 1
    /\ c1.calls_60s = c.calls_60s + 1
    /\ c1.calls_24h = c.calls_24h + 1

(* the effect the claim gives increment_call(api_key, operation_id), from data to d *)
CountsOneCall(d, api_key, operation_id) ==
    LET before == OpsOfKey(data, api_key)
        after == OpsOfKey(d, api_key)
        j0 == OpIndex(before, operation_id)
        j == OpIndex(after, operation_id)
    IN  /\ j # 0
        /\ PlusOne(IF j0 = 0 THEN Counters(0) ELSE before[j0].totals, after[j].totals)
        /\ j0 = 0 => /\ ~after[j].status.quotas_enabled
                      /\ after[j].quotas = Quota(0, 0, 0)
        /\ PlusOne(CountersOfKey(data, api_key), CountersOfKey(d, api_key))
        /\ Len(after) >= Len(before)
        /\ \A i \in 1..Len(before) :
               /\ after[i].quotas = before[i].quotas
               /\ before[i].id # operation_id => after[i] = before[i]

OtherKeyUntouched(d, other) ==
    /\ CountersOfKey(d, other) = CountersOfKey(data, other)
    /\ OpsOfKey(d, other) = OpsOfKey(data, other)

(* C19: while Running, increment_call(key, op) creates the operation entry if   *)
(* absent, with counters 0 and quota checking disabled, and raises by exactly   *)
(* one the counters of that operation and of the key's aggregate; the counters  *)
(* of every other operation and of every other key and all quota values are     *)
(* unchanged.                                                                   *)
C19_IncrementCountsOneCall ==
    [][\A api_key \in CountedKeys, operation_id \in OperationIds, current_time \in Times :
           (_is_running /\ IncrementCall(api_key, operation_id, current_time)) =>
               /\ CountsOneCall(data', api_key, operation_id)
               /\ \A other \in Keys \ {api_key} : OtherKeyUntouched(data', other)]_vars

(* a step of increment_call or of enable_quotas made with the key *)
CallWithKey(api_key) ==
    \/ /\ api_key \in CountedKeys
       /\ \E operation_id \in OperationIds, current_time \in Times :
              IncrementCall(api_key, operation_id, current_time)
    \/ \E q \in QuotaArgs : EnableQuotas(api_key, q)

(* C20: for two distinct raw API keys, also two with the same masked form, an   *)
(* increment or a quota setting made with one key changes neither the counters  *)
(* nor the quota nor the allow/deny decision of the other.                      *)
C20_AccountsPartitionedByRawKey ==
    [][\A api_key \in Keys, other \in Keys :
           (other # api_key /\ CallWithKey(api_key)) =>
               /\ OtherKeyUntouched(data', other)
               /\ check_quota(data', other) = check_quota(data, other)]_vars

(* Running after a start made on a Running tracker, a save and a load *)
C14_Witness ==
    /\ _is_running
    /\ last.op = "load_from_file"
    /\ file.kind = "json"
    /\ data # << >>
-----------------------------------------------------------------------------
(* C21: the mask of a key of at most 8 characters is the key itself; the mask   *)
(* of a longer key is its first 4 characters, then "****", then its last 4      *)
(* characters, whatever state the tracker is in.                                *)
C21_MaskShape ==
    input # "" =>
        IF Len(input) <= 8
        THEN text = input
        ELSE /\ Len(text) = 12
             /\ SubSeq(text, 1, 4) = SubSeq(input, 1, 4)
             /\ SubSeq(text, 5, 8) = "****"
             /\ SubSeq(text, 9, 12) = SubSeq(input, Len(input) - 3, Len(input))

(* a key of 8 characters left as it is, one that holds the marker itself *)
C21_Witness ==
    /\ Len(input) = 8
    /\ text = input
    /\ SubSeq(input, 3, 6) = "****"

-----------------------------------------------------------------------------
(* C22: a fresh tracker that imports the file save_to_file has just written gives, *)
(* for every key that has a record, the decision of check_quota that the saving    *)
(* tracker gives: the same allow, or the same denial with the same limit.          *)
KeyPresent(d, api_key) == FindApiKeyData(d, api_key) # 0

WrittenBySave == file = JsonFile(json_dump(saved))

C23_LoadRestoresSavedState ==
    [][(LoadFromFile /\ WrittenBySave) => data' = saved]_vars

C23_Witness ==
    /\ last.op = "load_from_file"
    /\ WrittenBySave
    /\ data = saved
    /\ \E i \in 1..Len(data) :
          /\ data[i].global.total_calls > 0
          /\ QuotasEnabled(data[i])

(* C24: load_from_file on a missing file or on malformed input raises an error to *)
(* the caller; it never returns normally.                                         *)
WellFormedDoc(doc) ==
    \A i \in 1..Len(doc) :
        HasMember(doc[i], "api_key_masked") /\ HasMember(doc[i], "global")

Malformed == file.kind \in {"missing", "invalid"} \/ ~WellFormedDoc(file.doc)

C24_LoadFailureIsRaised ==
    [][(LoadFromFile /\ Malformed) => last'.result.kind # "ok"]_vars
(* C25: import is all-or-nothing: when the input of load_from_file is missing or *)
(* malformed, the in-memory state is left exactly as it was, and with it what    *)
(* check_quota answers afterwards.                                                *)
C25_ImportIsAllOrNothing ==
    [][(LoadFromFile /\ Malformed) =>
        /\ data' = data
        /\ _is_running' = _is_running
        /\ \A api_key \in SessionKeys :
              check_quota(data', api_key) = check_quota(data, api_key)]_vars
(* C26: summary and save_to_file leave every key record, counter, quota and flag *)
(* and the running state unchanged, whether the tracker is Stopped or Running.    *)
C26_ViewsDoNotMutate ==
    [][(Summary \/ SaveToFile) =>
        UNCHANGED <<data, _is_running, _last_cleanup_time>>]_vars

C26_Witness ==
    /\ last.op = "summary"
    /\ ~_is_running
    /\ text = summary(data)
    /\ file = JsonFile(json_dump(data))
    /\ \E i \in 1..Len(data) : data[i].global.total_calls > 0
(* C28 as stated: in every reachable state no key record, and hence no saved file *)
(* and no summary, contains a raw API key.                                        *)
Contains(s, part) ==
    \E i \in 1..(Len(s) - Len(part) + 1) : SubSeq(s, i, i + Len(part) - 1) = part

InRecords(str) == \E i \in 1..Len(data) : data[i].api_key_masked = str

InFile(str) ==
    \E i \in 1..Len(file.doc) :
        \E k \in 1..Len(file.doc[i]) :
            \/ Contains(file.doc[i][k].name, str)
            \/ /\ file.doc[i][k].name = "api_key_masked"
               /\ Contains(file.doc[i][k].value, str)

InSummary(str) == Contains(text, str)

Exposed(api_key) == InRecords(api_key) \/ InFile(api_key) \/ InSummary(api_key)

CallsOf(api_key) ==
    Cardinality({t \in 1..Len(threads) :
                    threads[t].api_key = api_key /\ threads[t].counted})

AllReturned == \A t \in 1..Len(threads) : threads[t].pc = "done"

C27_NoUpdateLost ==
    AllReturned =>
        \A api_key \in ThreadKeys :
            /\ CountersOfKey(data, api_key).total_calls = CallsOf(api_key)
            /\ SumOps(OpsOfKey(data, api_key), "total") = CallsOf(api_key)
(* C29: while Running, increment_call succeeds for every operation id string, the *)
(* names of the record's own fields included: it does not raise, it counts the     *)
(* call under that id, and it leaves the masked key of the record as it was.       *)
C29_OperationIdIsOpaque ==
    [][\A api_key \in Keys, operation_id \in OperationIds, current_time \in Times :
          (_is_running /\ IncrementCall(api_key, operation_id, current_time)) =>
              /\ last'.result.kind = "ok"
              /\ OpIndex(OpsOfKey(data', api_key), operation_id) # 0
              /\ FindApiKeyData(data', api_key) # 0]_vars
(* C30: _request derives the operation id from the endpoint alone, and two calls *)
(* whose endpoints have the same first two path segments are accounted under the *)
(* same operation id, whatever path parameters follow.                           *)
Family(endpoint) ==
    LET parts == Split(Strip(endpoint))
    IN  IF Len(parts) >= 2 THEN <<parts[1], parts[2]>> ELSE << >>

C30_SameFamilySameOperationId ==
    [][(Family(input) # << >> /\ Family(input') = Family(input)) => text' = text]_vars

C30_Witness ==
    /\ Family(input) = <<"Quote", "List">>
    /\ Len(Split(Strip(input))) = 3
    /\ text = "List_Quote"
-----------------------------------------------------------------------------
(* C31: _request never returns data for a failed exchange: a 401 raises          *)
(* EODDataAuthError; a 404, a 429 or any other status that is not OK raises      *)
(* EODDataAPIError; an OK response whose body is not JSON, a timeout, a          *)
(* connection error or another transport failure raises EODDataError; only an    *)
(* OK response with a JSON body returns the parsed data.                         *)
Outcome(response, kind) ==
    /\ response = "401" => kind = "EODDataAuthError"
    /\ response \in {"404", "429", "500"} => kind = "EODDataAPIError"
    /\ response = "200_not_json" => kind = "EODDataError"
    /\ response \in {"Timeout", "ConnectionError", "RequestException"} =>
           kind = "EODDataError"
    /\ kind = "data" <=> response = "200_json"

C31_FailedExchangeRaises ==
    [][\A client \in Clients, endpoint \in ClientEndpoints, response \in Responses :
          Request(client, endpoint, response) =>
              /\ last'.sent
              /\ Outcome(response, last'.result.kind)]_vars

C31_Witness ==
    /\ last.op = "_request"
    /\ last.sent
    /\ last.result.kind = "EODDataError"
    /\ _is_running
    /\ check_quota(data, last.api_key).kind = "OutOfQuotaError"

(* C37: with a running tracker attached, every invocation of _request adds       *)
(* exactly one to the aggregate total of the key, whatever the outcome of the    *)
(* exchange, and the request is sent.                                            *)
C37_RequestCountsOnce ==
    [][\A client \in Clients, endpoint \in ClientEndpoints, response \in Responses :
          (client.accounting /\ _is_running /\ Request(client, endpoint, response)) =>
              /\ CountersOfKey(data', client.api_key).total_calls =
                     CountersOfKey(data, client.api_key).total_calls + 1
              /\ last'.sent]_vars
(* C32: after any sequence of start, stop, increment_call, enable_quotas,        *)
(* check_quota and reset, for every key and each of the three counters, the      *)
(* aggregate counter of the key is the sum of that counter over its operations.  *)
CounterNames == {"total", "calls_60s", "calls_24h"}

C32_AggregateIsSumOfOperations ==
    \A i \in 1..Len(data), dim \in CounterNames :
        CountOf(data[i].global, dim) = SumOps(data[i].ops, dim)

C32_Witness ==
    \E i \in 1..Len(data) :
        /\ Len(data[i].ops) = 2
        /\ \A j \in 1..2 : data[i].ops[j].totals.total_calls = 1
        /\ data[i].global.total_calls = 2
        /\ QuotasEnabled(data[i])
(* C35: check_quota is a pure query: whether it allows or denies, for keys seen  *)
(* and unseen, it leaves the list of key records, all counters, quotas and flags *)
(* and the running state unchanged.                                              *)
C35_CheckQuotaIsPureQuery ==
    [][\A api_key \in Keys :
          CheckQuota(api_key) => UNCHANGED <<data, _is_running, _last_cleanup_time>>]_vars

(* C36: once enable_quotas has been called for a key, the limits check_quota     *)
(* enforces are those of the most recent enable_quotas call, also after the      *)
(* first use of an operation id and after a reset: a new operation id never      *)
(* weakens, disables or changes the enforced limits.                             *)
C36_OperationsAgreeOnQuota ==
    [][\A api_key \in Keys, q \in QuotaArgs :
          (_is_running /\ EnableQuotas(api_key, q)) =>
              \A operation_id \in OperationIds \ ReservedNames :
                  LET used == increment_call(data', api_key, operation_id)
                  IN  /\ Enforces(used, api_key, q)
                      /\ Enforces(reset(used), api_key, q)]_vars
(* C38: start and stop change only the running flag: the counters, quotas and    *)
(* enabled flags after a stop followed by a start are those before it,           *)
(* increments attempted while Stopped are never added, and a key denied before   *)
(* the stop is denied again right after the restart.                             *)
Decisions(d) == [api_key \in Keys |-> check_quota(d, api_key)]

C38_StopStartKeepsAccounts ==
    [][(Start \/ Stop \/ (~_is_running /\ last'.op = "increment_call")) =>
          /\ data' = data
          /\ _last_cleanup_time' = _last_cleanup_time
          /\ Decisions(data') = Decisions(data)
          /\ Stop => ~_is_running'
          /\ Start => _is_running']_vars

(* a Stopped tracker, stop or a call that cannot raise the last to return, that *)
(* holds a key counted up to its limit while Running                           *)
C38_Witness ==
    /\ ~_is_running
    /\ last = Returned
    /\ \E api_key \in Keys :
          /\ HasRecord(api_key)
          /\ KeyRecord(api_key).global.total_calls = MaxCalls
          /\ check_quota(data, api_key).kind = "OutOfQuotaError"
(* C33: in every reachable state every counter set, of each operation and of    *)
(* each key aggregate, satisfies 0 <= calls_60s <= calls_24h <= total_calls.    *)
Ordered(c) ==
    /\ 0 <= c.calls_60s
    /\ c.calls_60s <= c.calls_24h
    /\ c.calls_24h <= c.total_calls

C34_OneRecordPerKey ==
    \A i \in 1..Len(data), j \in 1..Len(data) :
        i # j => data[i].api_key_masked # data[j].api_key_masked
====
